---- MODULE Spec2Model ----
(***************************************************************************)
(* The dataset cleaning functions of src/src/cleaning.py, with the         *)
(* configuration of src/src/config.py, as a state machine over an          *)
(* in-memory table (the pandas DataFrame `df`) and the two CSV files.      *)
(* The run of src/src/gender_satisfaction.py and the age grouping of       *)
(* src/src/age_satisfaction_prc.py work on the same table and files.       *)
(*                                                                         *)
(* A CSV file is a header (a sequence of column names) and a sequence of   *)
(* lines, each line a sequence of text fields.  A text field carries no    *)
(* type: it is empty, a numeral or a word.  A table cell is typed: it is   *)
(* the missing marker NaN, a number, or a string holding a text.  Numbers  *)
(* are exact rationals n/d in lowest terms; the missing marker is the      *)
(* value a mean over no values yields.                                     *)
(***************************************************************************)
EXTENDS Integers, Sequences, FiniteSets

\* ------------------------------------------------------------------ bounds

\* The most data lines a raw CSV file holds.
MaxRows == 3

\* The most rows of a file whose table is plotted.
MaxRowsPlotted == 1

\* The greatest age of a passenger.
MaxAge == 70

\* ------------------------------------------------------------ configuration

DROP_COLUMNS == {"Unnamed: 0", "id"}

IMPUTE_COLUMN == "Arrival Delay in Minutes"

\* The column names a raw file's header is made of.
ColumnNames == {"id", "Arrival Delay in Minutes", "satisfaction"}

\* The names a caller may ask to drop or to impute: the columns a file can
\* have and one that no file has.
ArgNames == ColumnNames \cup {"Unnamed: 0"}

\* ------------------------------------------------------------- text fields

EmptyField == [n |-> 0, d |-> 0, s |-> ""]

Numeral(n, d) == [n |-> n, d |-> d, s |-> ""]

Word(w) == [n |-> 0, d |-> 0, s |-> w]

IsNumeral(f) == f.s = "" /\ f.d > 0

\* The text fields a raw file holds in a column of the given name.
FieldsFor(name) ==
    CASE name = "id" -> {Numeral(1, 1)}
      [] name = "Arrival Delay in Minutes" ->
            {EmptyField, Numeral(5, 1), Numeral(15, 1)}
      [] OTHER -> {EmptyField, Word("satisfied")}

AllFields == UNION {FieldsFor(name) : name \in ColumnNames}

\* ------------------------------------------------------------------- cells

NaN == [k |-> "nan", n |-> 0, d |-> 0, s |-> ""]

Num(n, d) == [k |-> "num", n |-> n, d |-> d, s |-> ""]

Str(f) == [k |-> "str", n |-> f.n, d |-> f.d, s |-> f.s]

isna(c) == c.k = "nan"

\* ------------------------------------------------------ rational arithmetic

Abs(x) == IF x < 0 THEN -x ELSE x

RECURSIVE GCD(_, _)
GCD(a, b) == IF b = 0 THEN a ELSE GCD(b, a % b)

\* n/d in lowest terms; 0/0 (nothing to average) is the missing marker.
Div(n, d) ==
    IF d = 0 THEN NaN
    ELSE LET g == GCD(Abs(n), d) IN Num(n \div g, d \div g)

\* ------------------------------------------------------------------ tables

NoFile == [exists |-> FALSE, header |-> <<>>, lines |-> <<>>]

File(header, lines) == [exists |-> TRUE, header |-> header, lines |-> lines]

NoTable == [columns |-> <<>>, rows |-> <<>>]

DataFrame(columns, rows) == [columns |-> columns, rows |-> rows]

Range(seq) == {seq[i] : i \in 1..Len(seq)}

ColIndex(df, column) == CHOOSE i \in 1..Len(df.columns) : df.columns[i] = column

\* df[column]: the cells of one column, in row order.
Series(df, column) ==
    [r \in 1..Len(df.rows) |-> df.rows[r][ColIndex(df, column)]]

\* --------------------------------------------------------- pandas: read_csv

\* A header field with no name is named after its position.
UnnamedName(i) == <<"Unnamed: 0", "Unnamed: 1", "Unnamed: 2", "Unnamed: 3">>[i]

HeaderName(header, i) == IF header[i] = "" THEN UnnamedName(i) ELSE header[i]

\* A column is numeric when every field of it is empty or a numeral; one
\* word makes it a column of strings.
IsNumericColumn(file, i) ==
    \A r \in 1..Len(file.lines) :
        file.lines[r][i] = EmptyField \/ IsNumeral(file.lines[r][i])

\* An empty field is the missing marker; any other field is a number in a
\* numeric column and a string holding the field's text otherwise.
ParseField(f, numeric) ==
    IF f = EmptyField THEN NaN
    ELSE IF numeric THEN Num(f.n, f.d)
    ELSE Str(f)

read_csv(file) ==
    IF ~file.exists THEN [df |-> NoTable, exc |-> "FileNotFoundError"]
    ELSE IF Len(file.header) = 0 THEN [df |-> NoTable, exc |-> "EmptyDataError"]
    ELSE [df |-> DataFrame(
                    [i \in 1..Len(file.header) |-> HeaderName(file.header, i)],
                    [r \in 1..Len(file.lines) |->
                        [i \in 1..Len(file.header) |->
                            ParseField(file.lines[r][i], IsNumericColumn(file, i))]]),
          exc |-> "None"]

\* ----------------------------------------------------------- pandas: to_csv

\* The missing marker is written as an empty field; a number as its numeral;
\* a string as its text.
FormatCell(c) == IF isna(c) THEN EmptyField ELSE [n |-> c.n, d |-> c.d, s |-> c.s]

\* With index, every line starts with the row's position (from 0) under a
\* header field with no name.
to_csv(df, index) ==
    LET header == IF index THEN <<"">> \o df.columns ELSE df.columns
        line(r) == [i \in 1..Len(df.columns) |-> FormatCell(df.rows[r][i])]
    IN File(header,
            [r \in 1..Len(df.rows) |->
                IF index THEN <<Numeral(r - 1, 1)>> \o line(r) ELSE line(r)])

\* ------------------------------------------- pandas: drop, mean and fillna

\* The positions, ascending, of the columns whose name is not in labels.
KeptIndices(columns, labels) ==
    LET F[i \in 0..Len(columns)] ==
            IF i = 0 THEN <<>>
            ELSE IF columns[i] \in labels THEN F[i - 1]
            ELSE Append(F[i - 1], i)
    IN F[Len(columns)]

\* DataFrame.drop(columns=labels): a label that is no column is a KeyError.
DataFrame_drop(df, labels) ==
    IF ~(labels \subseteq Range(df.columns))
    THEN [df |-> df, exc |-> "KeyError"]
    ELSE LET K == KeptIndices(df.columns, labels)
         IN [df |-> DataFrame(
                        [j \in 1..Len(K) |-> df.columns[K[j]]],
                        [r \in 1..Len(df.rows) |->
                            [j \in 1..Len(K) |-> df.rows[r][K[j]]]]),
             exc |-> "None"]

Add(a, b) == Div(a.n * b.d + b.n * a.d, a.d * b.d)

\* Series_mean gone wrong: a missing value makes the mean missing (skipna off).
Series_mean_keepna(series) ==
    LET S[i \in 0..Len(series)] ==
            IF i = 0 THEN Num(0, 1)
            ELSE IF isna(series[i]) \/ isna(S[i - 1]) THEN NaN
            ELSE Add(S[i - 1], series[i])
        t == S[Len(series)]
    IN IF isna(t) THEN NaN ELSE Div(t.n, t.d * Len(series))

\* Series_mean gone wrong: the sum of the present values over the number of
\* rows, missing ones counted.
Series_mean_all_rows(series) ==
    LET S[i \in 0..Len(series)] ==
            IF i = 0 THEN Num(0, 1)
            ELSE IF isna(series[i]) THEN S[i - 1]
            ELSE Add(S[i - 1], series[i])
        t == S[Len(series)]
    IN Div(t.n, t.d * Len(series))

\* Series.mean(): the sum of the present values over their number; the
\* missing marker when no value is present.
Series_mean(series) ==
    LET S[i \in 0..Len(series)] ==
            IF i = 0 THEN [sum |-> Num(0, 1), count |-> 0]
            ELSE IF isna(series[i]) THEN S[i - 1]
            ELSE [sum |-> Add(S[i - 1].sum, series[i]), count |-> S[i - 1].count + 1]
        t == S[Len(series)]
    IN Div(t.sum.n, t.sum.d * t.count)

\* Series_fillna gone wrong: every row is given the value.
Series_fill_all(series, value) == [r \in 1..Len(series) |-> value]

Series_fillna(series, value) ==
    [r \in 1..Len(series) |-> IF isna(series[r]) THEN value ELSE series[r]]

\* df[column] = series
SetColumn(df, column, series) ==
    DataFrame(df.columns,
              [r \in 1..Len(df.rows) |->
                  [i \in 1..Len(df.columns) |->
                      IF df.columns[i] = column THEN series[r] ELSE df.rows[r][i]]])

\* ------------------------------------------------------------- cleaning.py

\* columns_present gone wrong: the names asked for, present or not.
columns_requested(table, columns_to_drop) == columns_to_drop

\* drop_unwanted_columns gone wrong: the names asked for are dropped as given.
drop_requested_columns(table, columns_to_drop) ==
    DataFrame_drop(table, columns_to_drop)

\* impute_mean_inplace gone wrong: a name that is no column is skipped.
impute_skip_missing_column(table, column) ==
    IF column \notin Range(table.columns)
    THEN [df |-> table, ret |-> NaN, exc |-> "None"]
    ELSE LET series == Series(table, column)
         IN IF \E r \in 1..Len(series) : series[r].k = "str"
            THEN [df |-> table, ret |-> NaN, exc |-> "TypeError"]
            ELSE LET mean_value == Series_mean(series)
                 IN [df |-> SetColumn(table, column, Series_fillna(series, mean_value)),
                     ret |-> mean_value,
                     exc |-> "None"]

\* impute_mean_inplace gone wrong: the rows with no value are removed.
impute_dropna(table, column) ==
    IF column \notin Range(table.columns)
    THEN [df |-> table, ret |-> NaN, exc |-> "KeyError"]
    ELSE LET series == Series(table, column)
             keep(row) == ~isna(row[ColIndex(table, column)])
         IN IF \E r \in 1..Len(series) : series[r].k = "str"
            THEN [df |-> table, ret |-> NaN, exc |-> "TypeError"]
            ELSE [df |-> DataFrame(table.columns, SelectSeq(table.rows, keep)),
                  ret |-> Series_mean(series),
                  exc |-> "None"]

\* save_processed_dataset gone wrong: the index is written.
save_with_index(table) == to_csv(table, TRUE)

load_raw_dataset(file) == read_csv(file)

columns_present(df, columns_to_drop) == columns_to_drop \cap Range(df.columns)

drop_unwanted_columns(df, columns_to_drop) ==
    DataFrame_drop(df, columns_present(df, columns_to_drop))

\* The mean of a column that holds a string is a TypeError, raised before
\* the column is assigned.
impute_mean_inplace(df, column) ==
    IF column \notin Range(df.columns)
    THEN [df |-> df, ret |-> NaN, exc |-> "KeyError"]
    ELSE LET series == Series(df, column)
         IN IF \E r \in 1..Len(series) : series[r].k = "str"
            THEN [df |-> df, ret |-> NaN, exc |-> "TypeError"]
            ELSE LET mean_value == Series_mean(series)
                 IN [df |-> SetColumn(df, column, Series_fillna(series, mean_value)),
                     ret |-> mean_value,
                     exc |-> "None"]

save_processed_dataset(df) == to_csv(df, FALSE)

\* ------------------------------------------------------ the output directory

\* The directory of PROCESSED_PATH: it does not exist, it can be written
\* to, or it exists and cannot.
DirStates == {"absent", "writable", "readonly"}

\* PROCESSED_DIR.mkdir(parents=True, exist_ok=True)
Path_mkdir(dir) == IF dir = "absent" THEN "writable" ELSE dir

\* save_processed_dataset(df, path) against the file system: to_csv opens
\* the path for writing and makes no directory.  A path whose directory
\* does not exist is an OSError, one that may not be written a
\* PermissionError; neither leaves a file.
save_processed_dataset_at(table, dir, file) ==
    IF dir = "writable"
    THEN [file |-> save_processed_dataset(table), dir |-> dir, exc |-> "None"]
    ELSE [file |-> file,
          dir |-> dir,
          exc |-> IF dir = "absent" THEN "OSError" ELSE "PermissionError"]

\* -------------------------------------------------- pandas: indexed tables

\* A table with an index: crosstab's result and what is made of it.
Frame(index, columns, data) == [index |-> index, columns |-> columns, data |-> data]

NoFrame == Frame(<<>>, <<>>, <<>>)

\* A Series with an index.
IndexedSeries(index, values) == [index |-> index, values |-> values]

NoSeries == IndexedSeries(<<>>, <<>>)

\* The numbers of a set, ascending.
RECURSIVE Ascending(_)
Ascending(S) ==
    IF S = {} THEN <<>>
    ELSE LET least == CHOOSE x \in S : \A y \in S : x <= y
         IN <<least>> \o Ascending(S \ {least})

\* df[column] = series: an existing column is replaced, a new one is added
\* as the last column.
DataFrame_setitem(df, column, series) ==
    IF column \in Range(df.columns) THEN SetColumn(df, column, series)
    ELSE DataFrame(Append(df.columns, column),
                   [r \in 1..Len(df.rows) |-> Append(df.rows[r], series[r])])

\* Series.unique(): the distinct values in order of first appearance, the
\* missing marker being one of them.
Series_unique(series) ==
    LET firsts == {r \in 1..Len(series) : \A q \in 1..(r - 1) : series[q] # series[r]}
        at == Ascending(firsts)
    IN [i \in 1..Len(at) |-> series[at[i]]]

\* The strings of the data, in the order of Python's string comparison.
StringOrder ==
    <<"Agender", "Female", "Male", "Other", "Satisfied", "Unsatisfied",
      "neutral or dissatisfied", "satisfied">>

StringRank(s) == CHOOSE i \in 1..Len(StringOrder) : StringOrder[i] = s

\* The distinct strings among cells, ascending.
SortedStrings(cells) ==
    LET at == Ascending({StringRank(c.s) : c \in cells})
    IN [i \in 1..Len(at) |-> StringOrder[at[i]]]

\* sorted(values): a float NaN and a string cannot be compared.
sorted(values) ==
    IF NaN \in Range(values) /\ Len(values) >= 2
    THEN [ret |-> <<>>, exc |-> "TypeError"]
    ELSE IF values = <<NaN>> THEN [ret |-> values, exc |-> "None"]
    ELSE [ret |-> LET names == SortedStrings(Range(values))
                  IN [i \in 1..Len(names) |-> Str(Word(names[i]))],
          exc |-> "None"]

\* pd.crosstab(index, columns): the rows with a value in both series are
\* counted; the index and the columns are the values that occur, sorted.
crosstab(index, columns) ==
    LET valid == {r \in 1..Len(index) : ~isna(index[r]) /\ ~isna(columns[r])}
        idx == SortedStrings({index[r] : r \in valid})
        cols == SortedStrings({columns[r] : r \in valid})
    IN Frame([i \in 1..Len(idx) |-> Str(Word(idx[i]))],
             cols,
             [i \in 1..Len(idx) |->
                 [j \in 1..Len(cols) |->
                     Num(Cardinality({r \in valid : /\ index[r].s = idx[i]
                                                    /\ columns[r].s = cols[j]}), 1)]])

\* DataFrame.reindex(labels): one row per label, in the order of labels; a
\* label the index does not have gets a row of missing markers.
reindex(frame, labels) ==
    Frame(labels, frame.columns,
          [i \in 1..Len(labels) |->
              IF labels[i] \in Range(frame.index)
              THEN frame.data[CHOOSE k \in 1..Len(frame.index) : frame.index[k] = labels[i]]
              ELSE [j \in 1..Len(frame.columns) |-> NaN]])

\* counts[col] = 0 for a column that counts does not have.
Frame_setdefault(frame, col, value) ==
    IF col \in Range(frame.columns) THEN frame
    ELSE Frame(frame.index, Append(frame.columns, col),
               [i \in 1..Len(frame.index) |-> Append(frame.data[i], value)])

\* frame[cols]: the named columns in the order asked for.
Frame_getitem(frame, cols) ==
    Frame(frame.index, cols,
          [i \in 1..Len(frame.index) |->
              [j \in 1..Len(cols) |->
                  frame.data[i][CHOOSE k \in 1..Len(frame.columns) :
                                    frame.columns[k] = cols[j]]]])

RECURSIVE sum_skipna(_)
sum_skipna(cells) ==
    IF cells = <<>> THEN Num(0, 1)
    ELSE Add(IF isna(Head(cells)) THEN Num(0, 1) ELSE Head(cells),
             sum_skipna(Tail(cells)))

\* frame.sum(axis=1): the sum of every row, missing markers skipped.
Frame_sum(frame) ==
    IndexedSeries(frame.index,
                  [i \in 1..Len(frame.index) |-> sum_skipna(frame.data[i])])

\* One cell divided by another; a missing operand or 0/0 gives the missing
\* marker.
Quotient(a, b) ==
    IF isna(a) \/ isna(b) THEN NaN ELSE Div(a.n * b.d, a.d * b.n)

Times(a, k) == IF isna(a) THEN NaN ELSE Div(a.n * k, a.d)

\* frame.div(series, axis=0): every row divided by the value of its label.
Frame_div(frame, series) ==
    Frame(frame.index, frame.columns,
          [i \in 1..Len(frame.index) |->
              [j \in 1..Len(frame.columns) |->
                  Quotient(frame.data[i][j], series.values[i])]])

Frame_mul(frame, k) ==
    Frame(frame.index, frame.columns,
          [i \in 1..Len(frame.index) |->
              [j \in 1..Len(frame.columns) |-> Times(frame.data[i][j], k)]])

\* -------------------------------------------------- gender_satisfaction.py

OUT_DIR_FIG == "reports/figures"

OUT_DIR_TAB == "reports/tables"

\* A path: its directory, the stem of its name, the parts appended to the
\* stem and the extension.
Path(dir, stem, parts, ext) == [dir |-> dir, stem |-> stem, parts |-> parts, ext |-> ext]

OUT_STACKED == Path(OUT_DIR_FIG, "gender_satisfaction_stacked_pandas_clean", <<>>, ".png")

OUT_PIES == Path(OUT_DIR_FIG, "gender_satisfaction_pies_clean", <<>>, ".png")

OUT_TABLE == Path(OUT_DIR_TAB, "gender_satisfaction_percent", <<>>, ".csv")

Args(show, no_save, suffix, timestamp, open_files) ==
    [show |-> show, no_save |-> no_save, suffix |-> suffix,
     timestamp |-> timestamp, open_files |-> open_files]

\* The values of --suffix: none, blanks only, a name.
Suffixes == {"", " ", "v1"}

str_strip(s) == IF s = " " THEN "" ELSE s

\* main: the parts of the file name suffix, joined by "_" in the name.
suffix_parts(args) ==
    (IF str_strip(args.suffix) # "" THEN <<str_strip(args.suffix)>> ELSE <<>>)
    \o (IF args.timestamp THEN <<"%Y%m%d-%H%M%S">> ELSE <<>>)

with_suffix(p, parts) == IF parts = <<>> THEN p ELSE [p EXCEPT !.parts = parts]

\* The directories and files under reports/.
Outputs(dirs, files) == [dirs |-> dirs, files |-> files]

load_data(file) == read_csv(file)

mapper(c) ==
    IF c.k = "str" /\ c.s = "satisfied" THEN Str(Word("Satisfied"))
    ELSE IF c.k = "str" /\ c.s = "neutral or dissatisfied" THEN Str(Word("Unsatisfied"))
    ELSE NaN

map_satisfaction(df) ==
    IF "satisfaction" \notin Range(df.columns) THEN [df |-> df, exc |-> "KeyError"]
    ELSE [df |-> DataFrame_setitem(df, "SatisfactionBinary",
                     [r \in 1..Len(df.rows) |-> mapper(Series(df, "satisfaction")[r])]),
          exc |-> "None"]

Female == Str(Word("Female"))

Male == Str(Word("Male"))

get_gender_labels(df) ==
    IF "Gender" \notin Range(df.columns) THEN [ret |-> <<>>, exc |-> "KeyError"]
    ELSE LET present == Series_unique(Series(df, "Gender"))
             base == SelectSeq(<<Female, Male>>, LAMBDA g : g \in Range(present))
             ordered == sorted(present)
             others == SelectSeq(ordered.ret, LAMBDA g : g \notin {Female, Male})
         IN IF ordered.exc # "None" THEN ordered
            ELSE [ret |-> base \o others, exc |-> "None"]

BothColumns == <<"Satisfied", "Unsatisfied">>

\* compute_percent_table gone wrong: the percentages are shares of all
\* passengers instead of shares of the row.
compute_percent_of_all(df, labels) ==
    LET found == reindex(crosstab(Series(df, "Gender"), Series(df, "SatisfactionBinary")),
                         labels)
        counts == Frame_getitem(Frame_setdefault(Frame_setdefault(found, "Satisfied", Num(0, 1)),
                                                 "Unsatisfied", Num(0, 1)),
                                BothColumns)
        total == sum_skipna(Frame_sum(counts).values)
    IN [counts |-> counts,
        pct |-> Frame_mul(Frame_div(counts,
                    IndexedSeries(labels, [i \in 1..Len(labels) |-> total])), 100),
        n_per_group |-> Frame_sum(counts)]

compute_percent_table(df, labels) ==
    LET found == reindex(crosstab(Series(df, "Gender"), Series(df, "SatisfactionBinary")),
                         labels)
        counts == Frame_getitem(Frame_setdefault(Frame_setdefault(found, "Satisfied", Num(0, 1)),
                                                 "Unsatisfied", Num(0, 1)),
                                BothColumns)
    IN [counts |-> counts,
        pct |-> Frame_mul(Frame_div(counts, Frame_sum(counts)), 100),
        n_per_group |-> Frame_sum(counts)]

\* main, lines 303-305: the table is written when outputs are saved.
save_table(out, table_path, save_outputs) ==
    IF save_outputs
    THEN Outputs(out.dirs \cup {OUT_DIR_TAB}, out.files \cup {table_path})
    ELSE out

\* plot_pies gone wrong: the figure is written whatever save says.
plot_pies_always(out, save_path, save, drawn) ==
    IF ~drawn THEN [out |-> out, exc |-> "ValueError"]
    ELSE [out |-> Outputs(out.dirs \cup {OUT_DIR_FIG}, out.files \cup {save_path}),
          exc |-> "None"]

\* The figure is drawn, which fails on a table matplotlib cannot draw, and
\* then written when save is set.
plot_stacked_percent(out, save_path, save, drawn) ==
    IF ~drawn THEN [out |-> out, exc |-> "ValueError"]
    ELSE IF save
    THEN [out |-> Outputs(out.dirs \cup {OUT_DIR_FIG}, out.files \cup {save_path}),
          exc |-> "None"]
    ELSE [out |-> out, exc |-> "None"]

plot_pies(out, save_path, save, drawn) ==
    IF ~drawn THEN [out |-> out, exc |-> "ValueError"]
    ELSE IF save
    THEN [out |-> Outputs(out.dirs \cup {OUT_DIR_FIG}, out.files \cup {save_path}),
          exc |-> "None"]
    ELSE [out |-> out, exc |-> "None"]

\* main, lines 316-317: the three files are opened when outputs are saved
\* and --open is given.
open_saved(paths, save_outputs, open_files) ==
    IF save_outputs /\ open_files THEN paths ELSE <<>>

\* -------------------------------------------------- age_satisfaction_prc.py

\* age <= k for a cell of the Age column; a comparison with NaN is false.
LessEq(age, k) == ~isna(age) /\ age.n <= k * age.d

\* age_to_group gone wrong: the bounds are compared with < instead of <=.
age_to_group_below(age) ==
    IF ~isna(age) /\ age.n < 17 * age.d THEN "0-17"
    ELSE IF ~isna(age) /\ age.n < 24 * age.d THEN "18-24"
    ELSE IF ~isna(age) /\ age.n < 34 * age.d THEN "25-34"
    ELSE IF ~isna(age) /\ age.n < 44 * age.d THEN "35-44"
    ELSE IF ~isna(age) /\ age.n < 54 * age.d THEN "45-54"
    ELSE IF ~isna(age) /\ age.n < 64 * age.d THEN "55-64"
    ELSE "65+"

age_to_group(age) ==
    IF LessEq(age, 17) THEN "0-17"
    ELSE IF LessEq(age, 24) THEN "18-24"
    ELSE IF LessEq(age, 34) THEN "25-34"
    ELSE IF LessEq(age, 44) THEN "35-44"
    ELSE IF LessEq(age, 54) THEN "45-54"
    ELSE IF LessEq(age, 64) THEN "55-64"
    ELSE "65+"

\* df['age_group'] = df['Age'].apply(age_to_group): comparing a string with
\* a number raises.
add_age_group(df) ==
    IF "Age" \notin Range(df.columns) THEN [df |-> df, exc |-> "KeyError"]
    ELSE IF \E r \in 1..Len(df.rows) : Series(df, "Age")[r].k = "str"
    THEN [df |-> df, exc |-> "TypeError"]
    ELSE [df |-> DataFrame_setitem(df, "age_group",
                     [r \in 1..Len(df.rows) |->
                         Str(Word(age_to_group(Series(df, "Age")[r])))]),
          exc |-> "None"]

\* ------------------------------------------------------------------- state

VARIABLES
    raw_file,        \* the file at RAW_PATH
    processed_file,  \* the file at PROCESSED_PATH
    df,              \* the caller's table
    mean_val,        \* what the last impute_mean_inplace returned
    exc,             \* the exception the last call raised, or "None"
    pc,              \* how far the caller is
    prev,            \* the table the last call was given
    last,            \* the last call: its function and its arguments
    processed_dir,   \* the directory of PROCESSED_PATH
    args,            \* gender_satisfaction.py: the parsed command line
    labels,          \* gender_satisfaction.py: what get_gender_labels returned
    counts,          \* gender_satisfaction.py: compute_percent_table's counts
    pct,             \* gender_satisfaction.py: its percentages
    n_per_group,     \* gender_satisfaction.py: its totals per gender
    out_dirs,        \* the directories under reports/ that exist
    out_files,       \* the files under reports/ that were written
    opened           \* the files opened with the OS default application

\* The state of the analysis scripts.
scriptVars == <<args, labels, counts, pct, n_per_group, out_dirs, out_files, opened>>

vars == <<raw_file, processed_file, df, mean_val, exc, pc, prev, last,
          processed_dir, scriptVars>>

Call(fn, columns, column) == [fn |-> fn, columns |-> columns, column |-> column]

Headers ==
    {h \in UNION {[1..n -> ColumnNames] : n \in 0..Cardinality(ColumnNames)} :
        \A i, j \in 1..Len(h) : h[i] = h[j] => i = j}

LinesOf(h) ==
    {l \in [1..Len(h) -> AllFields] : \A i \in 1..Len(h) : l[i] \in FieldsFor(h[i])}

RawFiles ==
    {NoFile} \cup
    UNION {{File(h, lines) : lines \in UNION {[1..n -> LinesOf(h)] : n \in 0..MaxRows}} :
           h \in Headers}

\* No script has computed or written anything.
InitResults ==
    /\ labels = <<>>
    /\ counts = NoFrame
    /\ pct = NoFrame
    /\ n_per_group = NoSeries
    /\ out_dirs = {}
    /\ out_files = {}
    /\ opened = <<>>

\* No script has run.
InitScripts == args = Args(FALSE, FALSE, "", FALSE, FALSE) /\ InitResults

InitCaller ==
    /\ raw_file \in RawFiles
    /\ processed_file = NoFile
    /\ df = NoTable
    /\ mean_val = NaN
    /\ exc = "None"
    /\ pc = "start"
    /\ prev = NoTable
    /\ last = Call("none", {}, "")
    /\ InitScripts

\* The callers of the cleaning functions import the configuration, which
\* makes the directory.
Init == InitCaller /\ processed_dir = "writable"

\* ----------------------------------------------------------------- actions

\* df = load_raw_dataset(RAW_PATH); a call that raises assigns nothing.
Load ==
    /\ pc = "start"
    /\ LET r == load_raw_dataset(raw_file)
       IN /\ df' = IF r.exc = "None" THEN r.df ELSE df
          /\ exc' = r.exc
          /\ pc' = IF r.exc = "None" THEN "loaded" ELSE "aborted"
    /\ prev' = df
    /\ last' = Call("load", {}, "")
    /\ UNCHANGED <<raw_file, processed_file, mean_val, processed_dir, scriptVars>>

\* df = drop_unwanted_columns(df, columns_to_drop); a caller that prunes a
\* pruned table does so with the drop-set it pruned with.
Drop(columns_to_drop) ==
    /\ \/ pc = "loaded"
       \/ pc = "pruned" /\ last.columns = columns_to_drop
    /\ LET r == drop_unwanted_columns(df, columns_to_drop)
       IN /\ df' = r.df
          /\ exc' = r.exc
          /\ pc' = IF r.exc = "None" THEN "pruned" ELSE "aborted"
    /\ prev' = df
    /\ last' = Call("drop", columns_to_drop, "")
    /\ UNCHANGED <<raw_file, processed_file, mean_val, processed_dir, scriptVars>>

\* mean_val = impute_mean_inplace(df, column)
Impute(column) ==
    /\ pc \in {"loaded", "pruned"}
    /\ LET r == impute_mean_inplace(df, column)
       IN /\ df' = r.df
          /\ mean_val' = r.ret
          /\ exc' = r.exc
          /\ pc' = IF r.exc = "None" THEN "imputed" ELSE "aborted"
    /\ prev' = df
    /\ last' = Call("impute", {}, column)
    /\ UNCHANGED <<raw_file, processed_file, processed_dir, scriptVars>>

\* save_processed_dataset(df, PROCESSED_PATH)
Save ==
    /\ pc \in {"loaded", "pruned", "imputed"}
    /\ LET r == save_processed_dataset_at(df, processed_dir, processed_file)
       IN /\ processed_file' = r.file
          /\ processed_dir' = r.dir
          /\ exc' = r.exc
          /\ pc' = IF r.exc = "None" THEN "saved" ELSE "aborted"
    /\ prev' = df
    /\ last' = Call("save", {}, "")
    /\ UNCHANGED <<raw_file, df, mean_val, scriptVars>>

\* df = load_raw_dataset(PROCESSED_PATH)
Reload ==
    /\ pc = "saved"
    /\ LET r == load_raw_dataset(processed_file)
       IN /\ df' = IF r.exc = "None" THEN r.df ELSE df
          /\ exc' = r.exc
          /\ pc' = IF r.exc = "None" THEN "reloaded" ELSE "aborted"
    /\ prev' = df
    /\ last' = Call("reload", {}, "")
    /\ UNCHANGED <<raw_file, processed_file, mean_val, processed_dir, scriptVars>>

DropAny == \E columns_to_drop \in SUBSET ArgNames : Drop(columns_to_drop)

ImputeAny == \E column \in ArgNames : Impute(column)

Next == Load \/ DropAny \/ ImputeAny \/ Save \/ Reload

Spec == Init /\ [][Next]_vars

\* ---------------------------------------------------------------- pipeline

\* Writer gone wrong: the table is saved at whatever stage it is.
WriterAtAnyStage ==
    /\ pc \in {"loaded", "pruned", "imputed"}
    /\ processed_file' = save_processed_dataset(df)
    /\ exc' = "None"
    /\ pc' = "saved"
    /\ prev' = df
    /\ last' = Call("save", {}, "")
    /\ UNCHANGED <<raw_file, df, mean_val, processed_dir, scriptVars>>

Loader == Load

Pruner == pc = "loaded" /\ Drop(DROP_COLUMNS)

Imputer == pc = "pruned" /\ Impute(IMPUTE_COLUMN)

Writer == pc = "imputed" /\ Save

NextPipeline == Loader \/ Pruner \/ Imputer \/ Writer

SpecPipeline == Init /\ [][NextPipeline]_vars

\* ------------------------------------------------- the run and its directory

\* import config: the paths are set and the directory of PROCESSED_PATH is
\* made when it does not exist.  The call is recorded with the state the
\* directory was found in.
ImportConfig ==
    /\ pc = "start"
    /\ last.fn = "none"
    /\ processed_dir' = Path_mkdir(processed_dir)
    /\ last' = Call("config", {}, processed_dir)
    /\ UNCHANGED <<raw_file, processed_file, df, mean_val, exc, pc, prev, scriptVars>>

\* A run finds the directory in any state; it calls the cleaning functions
\* with the configured arguments, after importing the configuration or with
\* paths of its own.
InitOutput == InitCaller /\ processed_dir \in DirStates

NextOutput ==
    ImportConfig \/ Load \/ Drop(DROP_COLUMNS) \/ Impute(IMPUTE_COLUMN) \/ Save

SpecOutput == InitOutput /\ [][NextOutput]_vars

\* ------------------------------------------- gender_satisfaction.py: a run

\* The processed files the script may find: none, ones without the columns
\* it reads, and ones with up to n rows of gender and satisfaction.
GenderFields ==
    {EmptyField, Word("Female"), Word("Male"), Word("Agender"), Word("Other")}

SatisfactionFields ==
    {EmptyField, Word("satisfied"), Word("neutral or dissatisfied")}

GenderLines == {<<g, s>> : g \in GenderFields, s \in SatisfactionFields}

GenderFiles(n) ==
    {NoFile, File(<<"Gender">>, <<>>), File(<<"satisfaction">>, <<>>)} \cup
    {File(<<"Gender", "satisfaction">>, lines) :
        lines \in UNION {[1..k -> GenderLines] : k \in 0..n}}

AllArgs ==
    {Args(show, no_save, suffix, timestamp, open_files) :
        show \in BOOLEAN, no_save \in BOOLEAN, suffix \in Suffixes,
        timestamp \in BOOLEAN, open_files \in BOOLEAN}

\* The script is started with the command line args on the processed file
\* of n rows at most; nothing under reports/ exists.
InitGender(n) ==
    /\ raw_file = NoFile
    /\ processed_file \in GenderFiles(n)
    /\ processed_dir \in DirStates
    /\ processed_file.exists => processed_dir # "absent"
    /\ df = NoTable
    /\ mean_val = NaN
    /\ exc = "None"
    /\ pc = "start"
    /\ prev = NoTable
    /\ last = Call("none", {}, "")
    /\ InitResults

\* main, lines 278-294.
save_outputs == ~args.no_save

stacked_path == with_suffix(OUT_STACKED, suffix_parts(args))

pies_path == with_suffix(OUT_PIES, suffix_parts(args))

table_path == with_suffix(OUT_TABLE, suffix_parts(args))

\* matplotlib draws a table with rows and numbers in every cell; what it
\* does with no row or a missing number is not fixed here.
DrawOutcomes ==
    IF \/ Len(pct.index) = 0
       \/ \E i \in 1..Len(pct.index) : \E j \in 1..Len(pct.columns) : isna(pct.data[i][j])
    THEN BOOLEAN
    ELSE {TRUE}

\* The import shim: importing config makes the directory of PROCESSED_PATH.
ImportShim ==
    /\ pc = "start"
    /\ processed_dir' = Path_mkdir(processed_dir)
    /\ pc' = "imported"
    /\ UNCHANGED <<raw_file, processed_file, df, mean_val, exc, prev, last, scriptVars>>

LoadData ==
    /\ pc = "imported"
    /\ LET r == load_data(processed_file)
       IN /\ df' = r.df
          /\ exc' = r.exc
          /\ pc' = IF r.exc = "None" THEN "loaded" ELSE "aborted"
    /\ UNCHANGED <<raw_file, processed_file, mean_val, prev, last, processed_dir, scriptVars>>

MapSatisfaction ==
    /\ pc = "loaded"
    /\ LET r == map_satisfaction(df)
       IN /\ df' = r.df
          /\ exc' = r.exc
          /\ pc' = IF r.exc = "None" THEN "mapped" ELSE "aborted"
    /\ UNCHANGED <<raw_file, processed_file, mean_val, prev, last, processed_dir, scriptVars>>

GetGenderLabels ==
    /\ pc = "mapped"
    /\ LET r == get_gender_labels(df)
       IN /\ labels' = r.ret
          /\ exc' = r.exc
          /\ pc' = IF r.exc = "None" THEN "labelled" ELSE "aborted"
    /\ UNCHANGED <<raw_file, processed_file, df, mean_val, prev, last, processed_dir,
                   args, counts, pct, n_per_group, out_dirs, out_files, opened>>

ComputePercentTable ==
    /\ pc = "labelled"
    /\ LET r == compute_percent_table(df, labels)
       IN /\ counts' = r.counts
          /\ pct' = r.pct
          /\ n_per_group' = r.n_per_group
    /\ pc' = "computed"
    /\ UNCHANGED <<raw_file, processed_file, df, mean_val, exc, prev, last, processed_dir,
                   args, labels, out_dirs, out_files, opened>>

SaveTable ==
    /\ pc = "computed"
    /\ LET r == save_table(Outputs(out_dirs, out_files), table_path, save_outputs)
       IN /\ out_dirs' = r.dirs
          /\ out_files' = r.files
    /\ pc' = "tabled"
    /\ UNCHANGED <<raw_file, processed_file, df, mean_val, exc, prev, last, processed_dir,
                   args, labels, counts, pct, n_per_group, opened>>

PlotStackedPercent ==
    /\ pc = "tabled"
    /\ \E drawn \in DrawOutcomes :
        LET r == plot_stacked_percent(Outputs(out_dirs, out_files), stacked_path,
                                      save_outputs, drawn)
        IN /\ out_dirs' = r.out.dirs
           /\ out_files' = r.out.files
           /\ exc' = r.exc
           /\ pc' = IF r.exc = "None" THEN "stacked" ELSE "aborted"
    /\ UNCHANGED <<raw_file, processed_file, df, mean_val, prev, last, processed_dir,
                   args, labels, counts, pct, n_per_group, opened>>

PlotPies ==
    /\ pc = "stacked"
    /\ \E drawn \in DrawOutcomes :
        LET r == plot_pies(Outputs(out_dirs, out_files), pies_path, save_outputs, drawn)
        IN /\ out_dirs' = r.out.dirs
           /\ out_files' = r.out.files
           /\ exc' = r.exc
           /\ pc' = IF r.exc = "None" THEN "plotted" ELSE "aborted"
    /\ UNCHANGED <<raw_file, processed_file, df, mean_val, prev, last, processed_dir,
                   args, labels, counts, pct, n_per_group, opened>>

OpenFiles ==
    /\ pc = "plotted"
    /\ opened' = open_saved(<<stacked_path, pies_path, table_path>>,
                            save_outputs, args.open_files)
    /\ pc' = "done"
    /\ UNCHANGED <<raw_file, processed_file, df, mean_val, exc, prev, last, processed_dir,
                   args, labels, counts, pct, n_per_group, out_dirs, out_files>>

NextGender ==
    \/ ImportShim
    \/ LoadData
    \/ MapSatisfaction
    \/ GetGenderLabels
    \/ ComputePercentTable
    \/ SaveTable
    \/ PlotStackedPercent
    \/ PlotPies
    \/ OpenFiles

\* Runs with every command line on small files.
InitFlags == InitGender(MaxRowsPlotted) /\ args \in AllArgs

SpecFlags == InitFlags /\ [][NextGender]_vars

\* Runs with the default command line on files of up to MaxRows rows.
InitPercent ==
    /\ InitGender(MaxRows)
    /\ processed_dir = "writable"
    /\ args = Args(FALSE, FALSE, "", FALSE, FALSE)

SpecPercent == InitPercent /\ [][NextGender]_vars

\* ----------------------------------------- age_satisfaction_prc.py: calls

\* The ages a file holds: the ends of every group, the greatest age, an
\* age below 0, no age, and a text that is not a number.
AgeFields ==
    {Numeral(a, 1) : a \in {-1, 0, 17, 18, 24, 25, 34, 35, 44, 45, 54, 55, 64, 65, MaxAge}}
    \cup {EmptyField, Word("unknown")}

AgeLines == {<<a, Word("satisfied")>> : a \in AgeFields}

AgeFiles ==
    {NoFile, File(<<"satisfaction">>, <<>>)} \cup
    {File(<<"Age", "satisfaction">>, lines) :
        lines \in UNION {[1..k -> AgeLines] : k \in 0..MaxRows}}

InitAge ==
    /\ raw_file = NoFile
    /\ processed_file \in AgeFiles
    /\ processed_dir = "writable"
    /\ df = NoTable
    /\ mean_val = NaN
    /\ exc = "None"
    /\ pc = "start"
    /\ prev = NoTable
    /\ last = Call("none", {}, "")
    /\ InitScripts

\* df = load_data(filepath)
AgeLoadData ==
    /\ pc = "start"
    /\ LET r == load_data(processed_file)
       IN /\ df' = r.df
          /\ exc' = r.exc
          /\ pc' = IF r.exc = "None" THEN "loaded" ELSE "aborted"
    /\ prev' = df
    /\ last' = Call("load_data", {}, "")
    /\ UNCHANGED <<raw_file, processed_file, mean_val, processed_dir, scriptVars>>

\* df = add_age_group(df)
AddAgeGroup ==
    /\ pc = "loaded"
    /\ LET r == add_age_group(df)
       IN /\ df' = r.df
          /\ exc' = r.exc
          /\ pc' = IF r.exc = "None" THEN "grouped" ELSE "aborted"
    /\ prev' = df
    /\ last' = Call("add_age_group", {}, "age_group")
    /\ UNCHANGED <<raw_file, processed_file, mean_val, processed_dir, scriptVars>>

NextAge == AgeLoadData \/ AddAgeGroup

SpecAge == InitAge /\ [][NextAge]_vars

\* ------------------------------------------------------------------ claims

Present(table, column) == column \in Range(table.columns)

\* The rows of a column that hold a value.
PresentRows(table, column) ==
    {r \in 1..Len(table.rows) : ~isna(Series(table, column)[r])}

\* C1: drop_unwanted_columns(T, S) raises nothing and returns T's column
\* sequence with the names in S removed: the kept columns in their original
\* relative order, names of S that are no column of T ignored.
C1_DropColumnSequence ==
    last.fn = "drop" =>
        LET Kept(c) == c \notin last.columns
        IN /\ exc = "None"
           /\ df.columns = SelectSeq(prev.columns, Kept)

\* A drop-set with a column of the table and a name that is none, leaving
\* two columns whose order can be told.
C1_Witness ==
    /\ last.fn = "drop"
    /\ "Unnamed: 0" \in last.columns
    /\ last.columns \cap Range(prev.columns) # {}
    /\ Len(df.columns) = 2
    /\ Len(prev.columns) = 3

\* C2: after impute_mean_inplace(T, c) has returned, for a column c of T that
\* held at least one value, no row of column c holds the missing marker.
C2_ImputationComplete ==
    (/\ last.fn = "impute"
     /\ exc = "None"
     /\ Present(prev, last.column)
     /\ PresentRows(prev, last.column) # {}) =>
        \A r \in 1..Len(df.rows) : ~isna(Series(df, last.column)[r])

\* A column that held a value and a missing marker has been imputed.
C2_Witness ==
    /\ last.fn = "impute"
    /\ exc = "None"
    /\ PresentRows(prev, last.column) # {}
    /\ \E r \in 1..Len(prev.rows) : isna(Series(prev, last.column)[r])
    /\ \A r \in 1..Len(df.rows) : ~isna(Series(df, last.column)[r])

RECURSIVE DenProduct(_, _)
DenProduct(series, rows) ==
    IF rows = {} THEN 1
    ELSE LET r == CHOOSE x \in rows : TRUE
         IN series[r].d * DenProduct(series, rows \ {r})

RECURSIVE ScaledSum(_, _, _)
ScaledSum(series, rows, scale) ==
    IF rows = {} THEN 0
    ELSE LET r == CHOOSE x \in rows : TRUE
         IN series[r].n * (scale \div series[r].d) + ScaledSum(series, rows \ {r}, scale)

\* C3: the value impute_mean_inplace(T, c) returns is the sum of the values
\* column c held before the call divided by their number, whatever the
\* number of missing rows; and every row of c that was missing holds the
\* returned value afterwards.
C3_MeanOfPresentValues ==
    (last.fn = "impute" /\ exc = "None") =>
        LET before == Series(prev, last.column)
            rows == PresentRows(prev, last.column)
            scale == DenProduct(before, rows)
        IN /\ rows # {} =>
                /\ mean_val.k = "num"
                /\ mean_val.n * scale * Cardinality(rows)
                       = ScaledSum(before, rows, scale) * mean_val.d
           /\ \A r \in 1..Len(prev.rows) :
                isna(before[r]) => Series(df, last.column)[r] = mean_val

\* The column held two different values and a missing marker: the missing
\* row now holds their mean, 10.
C3_Witness ==
    /\ last.fn = "impute"
    /\ exc = "None"
    /\ Cardinality(PresentRows(prev, last.column)) = 2
    /\ \E r \in 1..Len(prev.rows) :
          /\ isna(Series(prev, last.column)[r])
          /\ Series(df, last.column)[r] = Num(10, 1)
    /\ mean_val = Num(10, 1)

\* C4: drop_unwanted_columns and impute_mean_inplace return as many rows as
\* they were given, save_processed_dataset writes one data line per row, and
\* so the table has the rows of the loaded file up to and after the save.
C4_RowCount ==
    /\ last.fn \in {"drop", "impute"} => Len(df.rows) = Len(prev.rows)
    /\ last.fn = "save" => Len(processed_file.lines) = Len(prev.rows)
    /\ pc \in {"loaded", "pruned", "imputed", "saved"} =>
          Len(df.rows) = Len(raw_file.lines)

\* A table of three rows, one of them imputed, pruned of a column and saved.
C4_Witness ==
    /\ pc = "saved"
    /\ Len(processed_file.lines) = 3
    /\ Len(df.columns) < Len(raw_file.header)
    /\ ~isna(mean_val)
    /\ \E r \in 1..Len(raw_file.lines), i \in 1..Len(raw_file.header) :
          raw_file.lines[r][i] = EmptyField

\* C5: impute_mean_inplace(T, c) for a name c that is no column of T raises
\* the KeyError and leaves T as it was.
C5_MissingColumn ==
    (last.fn = "impute" /\ ~Present(prev, last.column)) =>
        /\ exc = "KeyError"
        /\ df = prev
        /\ pc = "aborted"

\* The KeyError was raised on a table that has columns and rows.
C5_Witness ==
    /\ last.fn = "impute"
    /\ exc = "KeyError"
    /\ Len(prev.columns) > 0
    /\ Len(prev.rows) > 0

\* C6: on a column whose every value is missing, impute_mean_inplace either
\* raises, or leaves every entry missing and does not return the missing
\* marker as the mean of a successful call.
C6_AllMissingPolicy ==
    (/\ last.fn = "impute"
     /\ Present(prev, last.column)
     /\ Len(prev.rows) > 0
     /\ PresentRows(prev, last.column) = {}) =>
        \/ exc # "None"
        \/ /\ PresentRows(df, last.column) = {}
           /\ ~isna(mean_val)

\* What the code does there: the call succeeds, the column stays missing,
\* nothing is fabricated, and the returned mean is the missing marker.
C6_AllMissingPassthrough ==
    (/\ last.fn = "impute"
     /\ Present(prev, last.column)
     /\ PresentRows(prev, last.column) = {}) =>
        /\ exc = "None"
        /\ df = prev
        /\ isna(mean_val)

C6_Witness ==
    /\ last.fn = "impute"
    /\ exc = "None"
    /\ Len(prev.rows) > 1
    /\ PresentRows(prev, last.column) = {}

C8_RoundTrip ==
    last.fn = "reload" => exc = "None" /\ df = prev

\* C8 as amended: loading the file save_processed_dataset wrote for a table
\* of at least one column gives the same columns in the same order and the
\* same rows in the same order with the same values, missing cells missing,
\* and no index column.
C8_RoundTripWithColumns ==
    (last.fn = "reload" /\ Len(prev.columns) > 0) =>
        /\ exc = "None"
        /\ df.columns = prev.columns
        /\ df.rows = prev.rows

\* A table of three rows and two columns with a missing cell, a string and
\* an imputed mean was saved and loaded.
C8_Witness ==
    /\ last.fn = "reload"
    /\ exc = "None"
    /\ Len(df.columns) = 2
    /\ Len(df.rows) = 3
    /\ \E r \in 1..Len(df.rows), i \in 1..Len(df.columns) : isna(df.rows[r][i])
    /\ \E r \in 1..Len(df.rows), i \in 1..Len(df.columns) : df.rows[r][i].k = "str"
    /\ \E r \in 1..Len(df.rows), i \in 1..Len(df.columns) : df.rows[r][i] = mean_val
    /\ ~isna(mean_val)

\* C9: impute_mean_inplace(T, c) leaves the columns and their order, the rows
\* and their order, every cell of another column and every cell of c that
\* held a value as they were.
C9_ImputeFrame ==
    last.fn = "impute" =>
        /\ df.columns = prev.columns
        /\ Len(df.rows) = Len(prev.rows)
        /\ \A r \in 1..Len(prev.rows), i \in 1..Len(prev.columns) :
              (prev.columns[i] # last.column \/ ~isna(prev.rows[r][i])) =>
                  df.rows[r][i] = prev.rows[r][i]

\* The imputed column held a value other than the mean beside a missing
\* marker, and the table has another column.
C9_Witness ==
    /\ last.fn = "impute"
    /\ exc = "None"
    /\ Len(prev.columns) > 1
    /\ \E r \in 1..Len(prev.rows) : isna(Series(prev, last.column)[r])
    /\ \E r \in PresentRows(prev, last.column) :
          Series(prev, last.column)[r] # mean_val

\* C10: dropping S from the table drop_unwanted_columns(T, S) returned
\* raises nothing and returns that table: its columns, rows and values.
C10_DropIdempotent ==
    last.fn = "drop" =>
        /\ exc = "None"
        /\ drop_unwanted_columns(df, last.columns) = [df |-> df, exc |-> "None"]

\* The table was pruned of a column it had and pruned again with the same
\* drop-set: the second call was given what it returned.
C10_Witness ==
    /\ last.fn = "drop"
    /\ exc = "None"
    /\ prev = df
    /\ Len(df.rows) > 0
    /\ Len(df.columns) > 0
    /\ Len(df.columns) < Len(raw_file.header)

IOErrors == {"OSError", "PermissionError"}

\* C11: save_processed_dataset given a directory that does not
\* exist or may not be written raises an I/O error, writes no file and makes
\* no directory; and no step of a run, the import of the configuration included, makes
\* the directory.
C11_NoStepMakesDirectory ==
    [][/\ (last'.fn = "save" /\ processed_dir # "writable") =>
              /\ exc' \in IOErrors
              /\ processed_file' = processed_file
       /\ processed_dir' = processed_dir]_vars

\* What the code does: save_processed_dataset given a directory that does
\* not exist or may not be written raises an I/O error, writes no file and
\* makes no directory; the import of the configuration makes the directory
\* when it does not exist, and nothing else does.
C11_OnlyConfigMakesDirectory ==
    [][/\ (last'.fn = "save" /\ processed_dir # "writable") =>
              /\ exc' \in IOErrors
              /\ pc' = "aborted"
              /\ processed_file' = processed_file
       /\ last'.fn = "save" => processed_dir' = processed_dir
       /\ processed_dir' # processed_dir =>
              /\ last'.fn = "config"
              /\ processed_dir = "absent"
              /\ processed_dir' = "writable"
       /\ (last'.fn = "config" /\ processed_dir = "absent") =>
              processed_dir' = "writable"]_vars

\* The configuration was imported where no directory was, and now there is
\* one.
C11_Witness ==
    /\ last.fn = "config"
    /\ last.column = "absent"
    /\ processed_dir = "writable"
    /\ pc = "start"

\* C12: run with --no-save, the gender script writes nothing, whatever the
\* other flags are: the percentage table, the stacked chart and the pie
\* chart are not written, no directory under reports/ is made, and no file
\* is opened with the default application, --open given or not.
C12_NoSaveWritesNothing ==
    args.no_save =>
        /\ out_files = {}
        /\ out_dirs = {}
        /\ opened = <<>>

\* A run with --no-save and every other flag set came to its end with a
\* table computed and nothing written.
C12_Witness ==
    /\ pc = "done"
    /\ args = Args(TRUE, TRUE, "v1", TRUE, TRUE)
    /\ Len(labels) = 1
    /\ pct.data = <<(<<Num(100, 1), Num(0, 1)>>)>>
    /\ out_files = {}

\* a comes before b in the label order: Female, Male, the rest sorted.
LabelBefore(a, b) ==
    \/ a = Female /\ b # Female
    \/ a = Male /\ b \notin {Female, Male}
    \/ /\ a \notin {Female, Male}
       /\ b \notin {Female, Male}
       /\ StringRank(a.s) < StringRank(b.s)

\* The rows of table with the gender label and a mapped satisfaction equal
\* to category.
CountedRows(table, label, category) ==
    {r \in 1..Len(table.rows) :
        /\ Series(table, "Gender")[r] = label
        /\ ~isna(label)
        /\ Series(table, "SatisfactionBinary")[r] = Str(Word(category))}

\* C13: the counts and the percentages compute_percent_table returns for the
\* labels of get_gender_labels have the two columns Satisfied, Unsatisfied
\* in that order, a category that is never counted being a column of zeros,
\* and one row per gender of the data in label order (Female, Male, the
\* others sorted); in a row with a counted passenger the two percentages
\* are non-negative and sum to 100, and n_per_group is the sum of the two
\* counts of the row.
C13_PercentTable ==
    counts # NoFrame =>
        /\ counts.columns = BothColumns
        /\ pct.columns = BothColumns
        /\ counts.index = labels
        /\ pct.index = labels
        /\ n_per_group.index = labels
        /\ Len(counts.data) = Len(labels)
        /\ Len(pct.data) = Len(labels)
        /\ Len(n_per_group.values) = Len(labels)
        /\ Range(labels) = Range(Series(df, "Gender"))
        /\ \A i, j \in 1..Len(labels) : i < j => LabelBefore(labels[i], labels[j])
        /\ \A j \in 1..2 :
               (\A i \in 1..Len(labels) : CountedRows(df, labels[i], BothColumns[j]) = {})
                   => \A i \in 1..Len(labels) : counts.data[i][j] = Num(0, 1)
        /\ \A i \in 1..Len(labels) :
               /\ Len(counts.data[i]) = 2
               /\ Len(pct.data[i]) = 2
               /\ (\E j \in 1..2 : CountedRows(df, labels[i], BothColumns[j]) # {}) =>
                      /\ \A j \in 1..2 : /\ pct.data[i][j].k = "num"
                                         /\ pct.data[i][j].n >= 0
                                         /\ counts.data[i][j].k = "num"
                      /\ Add(pct.data[i][1], pct.data[i][2]) = Num(100, 1)
                      /\ n_per_group.values[i] = Add(counts.data[i][1], counts.data[i][2])
                      /\ n_per_group.values[i].n >= 1

\* Two women, one satisfied, and a passenger of a gender that sorts before
\* Female whose satisfaction is not known: the rows are in label order, the
\* women's row is 50 and 50, the other row has no counted passenger.
C13_Witness ==
    /\ pc = "done"
    /\ labels = <<Female, Str(Word("Agender"))>>
    /\ pct.data[1] = <<Num(50, 1), Num(50, 1)>>
    /\ n_per_group.values = <<Num(2, 1), Num(0, 1)>>
    /\ isna(pct.data[2][1])

\* The seven age groups in order: label, least age, greatest age (none for
\* the last group).
AgeGroups ==
    <<[label |-> "0-17", lo |-> 0, hi |-> 17],
      [label |-> "18-24", lo |-> 18, hi |-> 24],
      [label |-> "25-34", lo |-> 25, hi |-> 34],
      [label |-> "35-44", lo |-> 35, hi |-> 44],
      [label |-> "45-54", lo |-> 45, hi |-> 54],
      [label |-> "55-64", lo |-> 55, hi |-> 64],
      [label |-> "65+", lo |-> 65, hi |-> 65]>>

InAgeGroup(a, i) ==
    AgeGroups[i].lo <= a /\ (i = Len(AgeGroups) \/ a <= AgeGroups[i].hi)

GroupRank(label) == CHOOSE i \in 1..Len(AgeGroups) : AgeGroups[i].label = label

\* C14: age_to_group gives every integer age one of the seven group labels;
\* an age from 0 on gets the label of the one group whose range holds it
\* (0..17, 18..24, 25..34, 35..44, 45..54, 55..64, 65 and above); a larger
\* age never gets an earlier group; add_age_group adds the column age_group
\* holding these labels and changes neither the number of rows nor a cell
\* of a column the table had.
C14_AgeGroups ==
    (last.fn = "add_age_group" /\ exc = "None") =>
        LET age == Series(df, "Age")
            group == Series(df, "age_group")
        IN /\ Len(df.rows) = Len(prev.rows)
           /\ df.columns = Append(prev.columns, "age_group")
           /\ \A r \in 1..Len(df.rows) :
                  /\ \A i \in 1..Len(prev.columns) : df.rows[r][i] = prev.rows[r][i]
                  /\ \E i \in 1..Len(AgeGroups) : group[r] = Str(Word(AgeGroups[i].label))
                  /\ (~isna(age[r]) /\ age[r].n >= 0) =>
                         /\ Cardinality({i \in 1..Len(AgeGroups) :
                                            InAgeGroup(age[r].n, i)}) = 1
                         /\ \A i \in 1..Len(AgeGroups) :
                                InAgeGroup(age[r].n, i) =>
                                    group[r] = Str(Word(AgeGroups[i].label))
           /\ \A r, q \in 1..Len(df.rows) :
                  (~isna(age[r]) /\ ~isna(age[q]) /\ age[r].n <= age[q].n) =>
                      GroupRank(group[r].s) <= GroupRank(group[q].s)

\* A table with the ages 17, 18 and 65 got its age_group column.
C14_Witness ==
    /\ last.fn = "add_age_group"
    /\ exc = "None"
    /\ Len(df.rows) = 3
    /\ Series(df, "Age") = <<Num(17, 1), Num(18, 1), Num(65, 1)>>
    /\ Series(df, "age_group") =
           <<Str(Word("0-17")), Str(Word("18-24")), Str(Word("65+"))>>

====
